---- MODULE Spec2Model ----
(***************************************************************************)
(* Model of classifier/train_on_azure.py: a Horovod data-parallel          *)
(* fine-tuning script.  Every worker (rank) runs the same module-level     *)
(* script: setup, a warm-up loop over range(1, N_FINETUNE_EPOCHS), the     *)
(* unfreezing of model.features, and a full loop over                      *)
(* range(N_FINETUNE_EPOCHS, args.epochs + 1).  Each loop body is           *)
(* train(epoch); test(); torch.save(...).                                  *)
(*                                                                         *)
(* Real-valued metrics are kept as exact fractions [num, den]; tensors of  *)
(* the model are kept as update counters (how often the optimizer or a     *)
(* batch-norm layer has written them).                                     *)
(***************************************************************************)
EXTENDS Integers, Sequences, FiniteSets, TLC

\* ------------------------------------------------------------------ bounds
MaxWorkers == 2
MaxEpochs == 2
MaxTestLen == 1
MaxTrainBatches == 1
MaxEpochMinutes == 1

\* ------------------------------------------------------- program constants
N_FINETUNE_EPOCHS == 2
CKPT == "xception_train"

\* no collective outstanding
None == [name |-> "none"]

VARIABLES
  args,          \* parsed command line: epochs, no_cuda, output_dir, test_batch_size
  env,           \* cluster and data: size, cuda_available, test_len,
                 \* train_batches, epoch_minutes (wall-clock duration of train())
  now,           \* per rank: wall clock read by datetime.datetime.now()
  pc,            \* per rank: position in the script
  cuda,          \* per rank: args.cuda
  epoch,         \* per rank: loop variable `epoch`
  it,            \* per rank: next value of the running range iterator
  phase,         \* per rank: which of the two loops is running
  model,         \* per rank: state mapping, trainability and mode of `model`
  optimizer,     \* per rank: number of optimizer.step() calls (momentum state)
  on_cuda,       \* per rank: objects placed on a CUDA device
  locals,        \* per rank: test_loss / test_accuracy of test()
  pending,       \* per rank: collective submitted to Horovod and not yet completed
  result,        \* per rank: value returned by the last completed collective
  runlog,        \* per rank: records sent with run.log
  printed,       \* per rank: number of 'Test set:' summaries printed
  files,         \* per rank: output directory, path -> stored state mapping
  trace,         \* per rank: calls made by the loops, in order
  collectives,   \* per rank: names of the collectives issued, in order
  unfreezes      \* per rank: number of times lines 171-172 ran

vars == <<args, env, now, pc, cuda, epoch, it, phase, model, optimizer,
          on_cuda, locals, pending, result, runlog, printed, files, trace,
          collectives, unfreezes>>

Ranks == 0 .. (env.size - 1)

\* ---------------------------------------------------------------- helpers
\* range(a, b) of Python: a, a+1, ..., b-1
Range(a, b) == a .. (b - 1)

\* variant: the warm-up range with its end included
WarmupRangeInclusive == Range(1, N_FINETUNE_EPOCHS + 1)

\* line 166: range(1, N_FINETUNE_EPOCHS)
WarmupRange == Range(1, N_FINETUNE_EPOCHS)

\* line 174: range(N_FINETUNE_EPOCHS, args.epochs + 1)
FullRange(epochs) == Range(N_FINETUNE_EPOCHS, epochs + 1)

Pad(n, width) ==
  LET s == ToString(n)
  IN  IF width = 4
        THEN (IF n < 10 THEN "000" ELSE IF n < 100 THEN "00"
                ELSE IF n < 1000 THEN "0" ELSE "") \o s
        ELSE (IF n < 10 THEN "0" ELSE "") \o s

\* str(datetime.date): YYYY-MM-DD
DateStr(d) == Pad(d.year, 4) \o "-" \o Pad(d.month, 2) \o "-" \o Pad(d.day, 2)

\* lines 77-80: f'{now.date()}_{now.hour}-{now.minute}' (seconds are dropped)
time(t) == DateStr(t) \o "_" \o ToString(t.hour) \o "-" \o ToString(t.minute)

\* lines 169, 177: os.path.join(args.output_dir, f'{CKPT}_{time()}.pth')
CheckpointPath(dir, t) == dir \o "/" \o CKPT \o "_" \o time(t) \o ".pth"

IsLeap(y) == (y % 4 = 0 /\ y % 100 # 0) \/ y % 400 = 0

DaysInMonth(y, m) ==
  IF m = 2 THEN (IF IsLeap(y) THEN 29 ELSE 28)
  ELSE IF m \in {4, 6, 9, 11} THEN 30 ELSE 31

\* the wall clock one minute later
NextMinute(t) ==
  IF t.minute < 59 THEN [t EXCEPT !.minute = t.minute + 1]
  ELSE IF t.hour < 23 THEN [t EXCEPT !.minute = 0, !.hour = t.hour + 1]
  ELSE IF t.day < DaysInMonth(t.year, t.month)
    THEN [t EXCEPT !.minute = 0, !.hour = 0, !.day = t.day + 1]
  ELSE IF t.month < 12
    THEN [t EXCEPT !.minute = 0, !.hour = 0, !.day = 1, !.month = t.month + 1]
  ELSE [year |-> t.year + 1, month |-> 1, day |-> 1, hour |-> 0, minute |-> 0]

\* the job starts shortly before midnight on the last day of a year
RECURSIVE Later(_, _)
\* the wall clock n minutes later
Later(t, n) == IF n = 0 THEN t ELSE NextMinute(Later(t, n - 1))

StartTimes ==
  { [year |-> 2019, month |-> 12, day |-> 31, hour |-> 23, minute |-> 59] }

\* exact fractions
Frac(n, d) == [num |-> n, den |-> d]
FracAdd(a, b) == Frac(a.num * b.den + b.num * a.den, a.den * b.den)

RECURSIVE FracSum(_, _)
FracSum(vals, n) ==
  IF n = 0 THEN Frac(0, 1) ELSE FracAdd(FracSum(vals, n - 1), vals[n - 1])

\* variant: an all-reduce that sums without dividing by the size
AllreduceSum(vals, n) == FracSum(vals, n)

\* line 134: hvd.allreduce(tensor, name=name) averages over the n workers
Allreduce(vals, n) ==
  LET s == FracSum(vals, n) IN Frac(s.num, s.den * n)

\* what one validation sample contributes at lines 147-150: its weighted
\* cross-entropy (in units of the loss of a misclassified sample) and
\* whether the arg-max prediction equals the target
SampleOutcome == { [loss |-> 0, correct |-> 1], [loss |-> 1, correct |-> 0] }

RECURSIVE SumLoss(_, _)
SumLoss(samples, n) ==
  IF n = 0 THEN 0 ELSE SumLoss(samples, n - 1) + samples[n].loss

RECURSIVE SumCorrect(_, _)
SumCorrect(samples, n) ==
  IF n = 0 THEN 0 ELSE SumCorrect(samples, n - 1) + samples[n].correct

\* ------------------------------------------------------------ model object
\* state_dict(): the parameters and the batch-norm buffers
StateDict(m) == [head |-> m.head, features |-> m.features, buffers |-> m.buffers]

\* lines 84-85: Xception(); model.load_scratch(PATH) loads the pretrained
\* weights and leaves only the classifier head trainable
load_scratch ==
  [head |-> 0, features |-> 0, buffers |-> 0,
   features_grad |-> FALSE, training |-> TRUE]

\* variant: test() without model.eval()
ModelEvalSkipped(m) == m

\* line 139: model.eval()
ModelEval(m) == [m EXCEPT !.training = FALSE]

\* line 112: model.train()
ModelTrain(m) == [m EXCEPT !.training = TRUE]

\* lines 118, 145: output = model(data); batch-norm layers write their
\* running statistics in training mode only
Forward(m) == IF m.training THEN [m EXCEPT !.buffers = m.buffers + 1] ELSE m

\* variant: a step that ignores requires_grad
OptimizerStepAll(m) ==
  [m EXCEPT !.head = m.head + 1, !.features = m.features + 1]

\* lines 117-121: zero_grad, backward, optimizer.step(): SGD writes the
\* parameters that have a gradient, i.e. those with requires_grad
OptimizerStep(m) ==
  [m EXCEPT !.head = m.head + 1,
            !.features = IF m.features_grad THEN m.features + 1 ELSE m.features]

RECURSIVE TrainBatches(_, _)
\* lines 114-121: the batch loop of train()
TrainBatches(m, n) ==
  IF n = 0 THEN m ELSE OptimizerStep(Forward(TrainBatches(m, n - 1)))

RECURSIVE TestBatches(_, _)
\* lines 142-145: the batch loop of test()
TestBatches(m, n) == IF n = 0 THEN m ELSE Forward(TestBatches(m, n - 1))

\* variant: metric_average returning the local value
metric_average_local(vals, n, r) == vals[r]

\* lines 132-135: metric_average returns the all-reduced value to rank r
metric_average(vals, n, r) == Allreduce(vals, n)

Event(op, e, ph) == [op |-> op, epoch |-> e, phase |-> ph]

\* ------------------------------------------------------------------- Init
Init ==
  /\ args \in [epochs : 0 .. MaxEpochs, no_cuda : BOOLEAN,
               output_dir : {"./outputs"}, test_batch_size : {1000}]
  /\ env \in [size : 1 .. MaxWorkers, cuda_available : BOOLEAN,
              test_len : {0, MaxTestLen}, train_batches : {0, MaxTrainBatches},
              epoch_minutes : {0, MaxEpochMinutes}]
  /\ now \in [Ranks -> StartTimes]
  /\ pc = [r \in Ranks |-> "setup"]
  /\ cuda = [r \in Ranks |-> FALSE]
  /\ epoch = [r \in Ranks |-> 0]
  /\ it = [r \in Ranks |-> 0]
  /\ phase = [r \in Ranks |-> "setup"]
  /\ model = [r \in Ranks |-> load_scratch]
  /\ optimizer = [r \in Ranks |-> 0]
  /\ on_cuda = [r \in Ranks |-> {}]
  /\ locals = [r \in Ranks |-> [test_loss |-> Frac(0, 1), test_accuracy |-> Frac(0, 1)]]
  /\ pending = [r \in Ranks |-> None]
  /\ result = [r \in Ranks |-> Frac(0, 1)]
  /\ runlog = [r \in Ranks |-> <<>>]
  /\ printed = [r \in Ranks |-> 0]
  /\ files = [r \in Ranks |-> <<>>]
  /\ trace = [r \in Ranks |-> <<>>]
  /\ collectives = [r \in Ranks |-> <<>>]
  /\ unfreezes = [r \in Ranks |-> 0]

\* ---------------------------------------------------------------- actions
\* lines 47-92: args.cuda, model.cuda() when args.cuda, then the call of
\* hvd.broadcast_parameters(model.state_dict(), root_rank=0)
Setup(r) ==
  /\ pc[r] = "setup"
  /\ LET c == ~args.no_cuda /\ env.cuda_available
     IN  /\ cuda' = [cuda EXCEPT ![r] = c]
         /\ on_cuda' = [on_cuda EXCEPT ![r] = IF c THEN {"model"} ELSE {}]
  /\ pending' = [pending EXCEPT ![r] = [name |-> "broadcast", val |-> StateDict(model[r])]]
  /\ collectives' = [collectives EXCEPT ![r] = Append(@, "broadcast")]
  /\ pc' = [pc EXCEPT ![r] = "broadcast"]
  /\ UNCHANGED <<args, env, now, epoch, it, phase, model, optimizer,
                 locals, result, runlog, printed, files, trace, unfreezes>>

\* Horovod completes a collective once every rank has submitted it under
\* the same name: the broadcast writes rank 0's tensors into every model
BroadcastComplete ==
  /\ \A r \in Ranks : pending[r].name = "broadcast"
  /\ model' = [r \in Ranks |->
                 [model[r] EXCEPT !.head = pending[0].val.head,
                                  !.features = pending[0].val.features,
                                  !.buffers = pending[0].val.buffers]]
  /\ pending' = [r \in Ranks |-> None]
  /\ UNCHANGED <<args, env, now, pc, cuda, epoch, it, phase, optimizer,
                 on_cuda, locals, result, runlog, printed, files, trace,
                 collectives, unfreezes>>

\* ... and an all-reduce returns the mean of the submitted values to each rank
AllreduceComplete ==
  /\ \A r \in Ranks : pending[r].name \notin {"none", "broadcast"}
  /\ \A r \in Ranks : pending[r].name = pending[0].name
  /\ LET vals == [r \in Ranks |-> pending[r].val]
     IN  result' = [r \in Ranks |-> metric_average(vals, env.size, r)]
  /\ pending' = [r \in Ranks |-> None]
  /\ UNCHANGED <<args, env, now, pc, cuda, epoch, it, phase, model,
                 optimizer, on_cuda, locals, runlog, printed, files, trace,
                 collectives, unfreezes>>

\* the range a loop iterates over
LoopRange(ph, epochs) == IF ph = "warmup" THEN WarmupRange ELSE FullRange(epochs)

\* lines 166, 174: the `for` statement of loop ph on rank r, whose range
\* iterator stands at i: bind `epoch` and enter the body, or leave the loop
For(r, ph, i) ==
  IF i \in LoopRange(ph, args.epochs)
    THEN /\ epoch' = [epoch EXCEPT ![r] = i]
         /\ it' = [it EXCEPT ![r] = i + 1]
         /\ pc' = [pc EXCEPT ![r] = "train"]
    ELSE /\ epoch' = epoch
         /\ it' = [it EXCEPT ![r] = i]
         /\ pc' = [pc EXCEPT ![r] = IF ph = "warmup" THEN "unfreeze" ELSE "done"]

\* lines 95-109 and 166: the optimizer, then
\* torch.Tensor(datasets.classw).cuda(), which raises when there is no CUDA
\* device; then the warm-up loop starts
SetupLoss(r) ==
  /\ pc[r] = "broadcast"
  /\ pending[r].name = "none"
  /\ IF env.cuda_available
       THEN /\ on_cuda' = [on_cuda EXCEPT ![r] = @ \cup {"class_weights"}]
            /\ phase' = [phase EXCEPT ![r] = "warmup"]
            /\ For(r, "warmup", 1)
       ELSE /\ pc' = [pc EXCEPT ![r] = "crashed"]
            /\ UNCHANGED <<on_cuda, it, phase, epoch>>
  /\ UNCHANGED <<args, env, now, cuda, model, optimizer, locals,
                 pending, result, runlog, printed, files, trace, collectives,
                 unfreezes>>

\* len(DataLoader): number of batches of n samples in batches of bs
LoaderLen(n, bs) == (n + bs - 1) \div bs

\* lines 171-174: requires_grad = True for every parameter of
\* model.features; then the full fine-tune loop starts
Unfreeze(r) ==
  /\ pc[r] = "unfreeze"
  /\ model' = [model EXCEPT ![r].features_grad = TRUE]
  /\ unfreezes' = [unfreezes EXCEPT ![r] = @ + 1]
  /\ phase' = [phase EXCEPT ![r] = "full"]
  /\ For(r, "full", N_FINETUNE_EPOCHS)
  /\ UNCHANGED <<args, env, now, cuda, optimizer, on_cuda, locals,
                 pending, result, runlog, printed, files, trace, collectives>>

\* lines 111-129: train(epoch), which takes env.epoch_minutes of wall-clock
\* time (whole minutes; a shorter epoch takes 0).  With a batch to process
\* and the class weights on a CUDA device while the batch is not (args.cuda
\* false), the criterion of line 119 raises after the first forward pass.
Train(r) ==
  /\ pc[r] = "train"
  /\ trace' = [trace EXCEPT ![r] = Append(@, Event("train", epoch[r], phase[r]))]
  /\ now' = [now EXCEPT ![r] = Later(@, env.epoch_minutes)]
  /\ IF env.train_batches = 0
       THEN /\ model' = [model EXCEPT ![r] = ModelTrain(@)]
            /\ pc' = [pc EXCEPT ![r] = "test"]
            /\ UNCHANGED <<optimizer, on_cuda>>
       ELSE IF ~cuda[r]
         THEN /\ model' = [model EXCEPT ![r] = Forward(ModelTrain(@))]
              /\ pc' = [pc EXCEPT ![r] = "crashed"]
              /\ UNCHANGED <<optimizer, on_cuda>>
         ELSE /\ model' = [model EXCEPT ![r] = TrainBatches(ModelTrain(@), env.train_batches)]
              /\ optimizer' = [optimizer EXCEPT ![r] = @ + env.train_batches]
              /\ on_cuda' = [on_cuda EXCEPT ![r] = @ \cup {"batch"}]
              /\ pc' = [pc EXCEPT ![r] = "test"]
  /\ UNCHANGED <<args, env, cuda, epoch, it, phase, locals, pending,
                 result, runlog, printed, files, collectives, unfreezes>>

\* lines 139-155: test() up to the call of metric_average(test_loss,
\* 'avg_loss').  The shard holds len(test_sampler) samples; an empty one
\* makes line 152 divide by zero, and a batch on the CPU with the class
\* weights on a CUDA device makes line 147 raise.
TestLocal(r) ==
  /\ pc[r] = "test"
  /\ trace' = [trace EXCEPT ![r] = Append(@, Event("test", epoch[r], phase[r]))]
  /\ \E samples \in [1 .. env.test_len -> SampleOutcome] :
       LET n == env.test_len
           batches == LoaderLen(n, args.test_batch_size)
       IN  IF n = 0
             THEN /\ model' = [model EXCEPT ![r] = ModelEval(@)]
                  /\ pc' = [pc EXCEPT ![r] = "crashed"]
                  /\ UNCHANGED <<on_cuda, locals, pending, collectives>>
             ELSE IF ~cuda[r]
               THEN /\ model' = [model EXCEPT ![r] = Forward(ModelEval(@))]
                    /\ pc' = [pc EXCEPT ![r] = "crashed"]
                    /\ UNCHANGED <<on_cuda, locals, pending, collectives>>
               ELSE /\ model' = [model EXCEPT ![r] = TestBatches(ModelEval(@), batches)]
                    /\ on_cuda' = [on_cuda EXCEPT ![r] = @ \cup {"batch"}]
                    /\ locals' = [locals EXCEPT ![r] =
                                    [test_loss |-> Frac(SumLoss(samples, n), n),
                                     test_accuracy |-> Frac(SumCorrect(samples, n), n)]]
                    /\ pending' = [pending EXCEPT ![r] =
                                     [name |-> "avg_loss", val |-> Frac(SumLoss(samples, n), n)]]
                    /\ collectives' = [collectives EXCEPT ![r] = Append(@, "avg_loss")]
                    /\ pc' = [pc EXCEPT ![r] = "avg_loss"]
  /\ UNCHANGED <<args, env, now, cuda, epoch, it, phase, optimizer, result,
                 runlog, printed, files, unfreezes>>

\* variant: only rank 0 averages the accuracy
TestLossRankZero(r) ==
  /\ pc[r] = "avg_loss"
  /\ pending[r].name = "none"
  /\ locals' = [locals EXCEPT ![r].test_loss = result[r]]
  /\ IF r = 0
       THEN /\ pending' = [pending EXCEPT ![r] =
                             [name |-> "avg_accuracy", val |-> locals[r].test_accuracy]]
            /\ collectives' = [collectives EXCEPT ![r] = Append(@, "avg_accuracy")]
       ELSE UNCHANGED <<pending, collectives>>
  /\ pc' = [pc EXCEPT ![r] = "avg_accuracy"]
  /\ UNCHANGED <<args, env, now, cuda, epoch, it, phase, model, optimizer,
                 on_cuda, result, runlog, printed, files, trace, unfreezes>>

\* lines 155-156: metric_average(test_loss, 'avg_loss') has returned; call
\* metric_average(test_accuracy, 'avg_accuracy')
TestLoss(r) ==
  /\ pc[r] = "avg_loss"
  /\ pending[r].name = "none"
  /\ locals' = [locals EXCEPT ![r].test_loss = result[r]]
  /\ pending' = [pending EXCEPT ![r] =
                   [name |-> "avg_accuracy", val |-> locals[r].test_accuracy]]
  /\ collectives' = [collectives EXCEPT ![r] = Append(@, "avg_accuracy")]
  /\ pc' = [pc EXCEPT ![r] = "avg_accuracy"]
  /\ UNCHANGED <<args, env, now, cuda, epoch, it, phase, model, optimizer,
                 on_cuda, result, runlog, printed, files, trace, unfreezes>>

\* lines 156-163: the second metric_average has returned; run.log both
\* values; rank 0 prints the summary
TestReport(r) ==
  /\ pc[r] = "avg_accuracy"
  /\ pending[r].name = "none"
  /\ locals' = [locals EXCEPT ![r].test_accuracy = result[r]]
  /\ runlog' = [runlog EXCEPT ![r] =
                  @ \o << [key |-> "val_loss", val |-> locals[r].test_loss, epoch |-> epoch[r]],
                          [key |-> "val_acc", val |-> result[r], epoch |-> epoch[r]] >>]
  /\ printed' = [printed EXCEPT ![r] = IF r = 0 THEN @ + 1 ELSE @]
  /\ pc' = [pc EXCEPT ![r] = "save"]
  /\ UNCHANGED <<args, env, now, cuda, epoch, it, phase, model, optimizer,
                 on_cuda, pending, result, files, trace, collectives, unfreezes>>

\* the output directory after writing `content` at `path`
WriteFile(dir, path, content) ==
  [p \in (DOMAIN dir) \cup {path} |-> IF p = path THEN content ELSE dir[p]]

\* variant: only rank 0 writes checkpoints
SaveRankZero(r) ==
  /\ pc[r] = "save"
  /\ IF r = 0
       THEN /\ files' = [files EXCEPT ![r] =
                 WriteFile(@, CheckpointPath(args.output_dir, now[r]), StateDict(model[r]))]
            /\ trace' = [trace EXCEPT ![r] = Append(@, Event("save", epoch[r], phase[r]))]
       ELSE UNCHANGED <<files, trace>>
  /\ For(r, phase[r], it[r])
  /\ UNCHANGED <<args, env, now, cuda, phase, model, optimizer,
                 on_cuda, locals, pending, result, runlog, printed, collectives,
                 unfreezes>>

\* lines 169, 177: torch.save(model.state_dict(), <path built from time()>),
\* then back to the `for` statement of the running loop
Save(r) ==
  /\ pc[r] = "save"
  /\ files' = [files EXCEPT ![r] =
                 WriteFile(@, CheckpointPath(args.output_dir, now[r]), StateDict(model[r]))]
  /\ trace' = [trace EXCEPT ![r] = Append(@, Event("save", epoch[r], phase[r]))]
  /\ For(r, phase[r], it[r])
  /\ UNCHANGED <<args, env, now, cuda, phase, model, optimizer,
                 on_cuda, locals, pending, result, runlog, printed, collectives,
                 unfreezes>>

\* one step of the script on rank r
Step(r) ==
  \/ Setup(r)
  \/ SetupLoss(r)
  \/ Unfreeze(r)
  \/ Train(r)
  \/ TestLocal(r)
  \/ TestLoss(r)
  \/ TestReport(r)
  \/ Save(r)

Next ==
  \/ BroadcastComplete
  \/ AllreduceComplete
  \/ \E r \in Ranks : Setup(r)
  \/ \E r \in Ranks : SetupLoss(r)
  \/ \E r \in Ranks : Unfreeze(r)
  \/ \E r \in Ranks : Train(r)
  \/ \E r \in Ranks : TestLocal(r)
  \/ \E r \in Ranks : TestLoss(r)
  \/ \E r \in Ranks : TestReport(r)
  \/ \E r \in Ranks : Save(r)

Spec == Init /\ [][Next]_vars

\* every process keeps running and Horovod's background thread completes a
\* collective that all ranks have submitted
\* the collectives do not depend on the clock: runs with epochs shorter
\* than a minute
FairInit == Init /\ env.epoch_minutes = 0

FairSpec ==
  /\ FairInit
  /\ [][Next]_vars
  /\ \A r \in 0 .. (MaxWorkers - 1) : WF_vars(r \in Ranks /\ Step(r))
  /\ WF_vars(BroadcastComplete)
  /\ WF_vars(AllreduceComplete)

\* ----------------------------------------------------- derived quantities
Events(r, op) == SelectSeq(trace[r], LAMBDA e : e.op = op)

\* the number of train / test calls and checkpoint writes made by rank r
Count(r, op) == Len(Events(r, op))

\* the epoch numbers passed to train(), in call order
TrainedEpochs(r) == [i \in 1 .. Count(r, "train") |-> Events(r, "train")[i].epoch]

\* the epoch numbers for which train, test and the checkpoint write all ran
EpochsExecuted(r) ==
  { e \in {trace[r][i].epoch : i \in DOMAIN trace[r]} :
      \A op \in {"train", "test", "save"} :
        \E i \in DOMAIN trace[r] : trace[r][i].op = op /\ trace[r][i].epoch = e }

\* iterations of the warm-up loop of line 166
WarmupIterations(r) ==
  Len(SelectSeq(trace[r], LAMBDA e : e.op = "train" /\ e.phase = "warmup"))

\* evaluations that have returned: each one logged a val_loss/val_acc pair
CompletedEvals(r) == Len(runlog[r]) \div 2

IsPrefix(s, t) == Len(s) <= Len(t) /\ \A i \in 1 .. Len(s) : s[i] = t[i]

\* no loop body is running on rank r
BetweenEpochs(r) == pc[r] \in {"train", "unfreeze", "done"}

InTest(r) == pc[r] \in {"test", "avg_loss", "avg_accuracy"}

\* test() was called and has not returned (it waits, or it raised)
TestUnfinished(r) ==
  /\ pc[r] \in {"avg_loss", "avg_accuracy", "crashed"}
  /\ trace[r] # <<>>
  /\ trace[r][Len(trace[r])].op = "test"

\* ----------------------------------------------------------------- claims

\* C1 as stated: with 1 worker and --epochs 2 the warm-up loop runs zero
\* iterations and train/test/checkpoint run for exactly the epochs {2}.
C1_Original ==
  \A r \in Ranks :
    (env.size = 1 /\ args.epochs = 2 /\ pc[r] = "done")
      => (WarmupIterations(r) = 0 /\ EpochsExecuted(r) = {2})

\* C1 amended: with 1 worker and --epochs 2 the warm-up loop
\* range(1, N_FINETUNE_EPOCHS) runs one iteration (epoch 1) and
\* train/test/checkpoint run for exactly the epochs {1, 2}.
C1_WarmupRunsOnce ==
  \A r \in Ranks :
    (env.size = 1 /\ args.epochs = 2 /\ pc[r] = "done")
      => (WarmupIterations(r) = 1 /\ EpochsExecuted(r) = {1, 2}
          /\ TrainedEpochs(r) = <<1, 2>>)

C1_Witness == env.size = 1 /\ args.epochs = 2 /\ pc[0] = "done"

\* C2: the feature extractor goes FROZEN -> TRAINABLE exactly once per run,
\* after every warm-up epoch (epoch < N_FINETUNE_EPOCHS) has been trained,
\* evaluated and checkpointed and before any full fine-tune epoch is
\* trained; the flag is never cleared again; and no step taken while the
\* features are frozen changes the feature parameters.
C2_FreezeThenUnfreeze ==
  /\ [](\A r \in Ranks :
          /\ unfreezes[r] <= 1
          /\ model[r].features_grad <=> unfreezes[r] = 1
          /\ pc[r] = "done" => unfreezes[r] = 1
          /\ unfreezes[r] = 0 =>
               \A i \in DOMAIN trace[r] :
                 trace[r][i].phase = "warmup" /\ trace[r][i].epoch < N_FINETUNE_EPOCHS
          /\ unfreezes[r] = 1 =>
               /\ \A e \in 1 .. (N_FINETUNE_EPOCHS - 1) : e \in EpochsExecuted(r)
               /\ \A i \in DOMAIN trace[r] :
                    trace[r][i].phase = "full" => trace[r][i].epoch >= N_FINETUNE_EPOCHS)
  /\ [][\A r \in Ranks :
          /\ unfreezes'[r] >= unfreezes[r]
          /\ model[r].features_grad => model'[r].features_grad
          /\ ~model[r].features_grad => model'[r].features = model[r].features]_vars

C2_Witness ==
  \E r \in Ranks :
    /\ pc[r] = "done"
    /\ unfreezes[r] = 1
    /\ WarmupIterations(r) = 1
    /\ model[r].head > model[r].features
    /\ model[r].features > 0

\* C3 as stated: no checkpoint is overwritten, so a rank's output directory
\* holds as many checkpoint files as the rank has completed epochs.
C3_Original ==
  \A r \in Ranks : Cardinality(DOMAIN files[r]) = Count(r, "save")

\* C4: on every rank the calls of the two loops are train(epoch), test(),
\* checkpoint write, in that order and once each per epoch; a new epoch's
\* training starts only after the previous checkpoint write; the write
\* stores the model's state mapping; and the number of checkpoint writes
\* equals the number of completed evaluations (it is one behind only while
\* the write that follows a returned test() has not run yet).
C4_EpochSteps ==
  /\ [](\A r \in Ranks :
          /\ \A i \in DOMAIN trace[r] :
               /\ trace[r][i].op = <<"train", "test", "save">>[((i - 1) % 3) + 1]
               /\ trace[r][i].epoch = trace[r][i - ((i - 1) % 3)].epoch
          /\ \A i, j \in 1 .. Count(r, "train") :
               i < j => TrainedEpochs(r)[i] < TrainedEpochs(r)[j]
          /\ pc[r] = "train" => Len(trace[r]) % 3 = 0
          /\ Count(r, "save") = CompletedEvals(r) - (IF pc[r] = "save" THEN 1 ELSE 0)
          /\ BetweenEpochs(r) =>
               Count(r, "train") = Count(r, "save") /\ Count(r, "test") = Count(r, "save"))
  /\ [][\A r \in Ranks :
          (pc[r] = "save" /\ pc'[r] # "save") =>
            /\ CheckpointPath(args.output_dir, now[r]) \in DOMAIN files'[r]
            /\ files'[r][CheckpointPath(args.output_dir, now[r])] = StateDict(model[r])]_vars

C4_Witness ==
  \E r \in Ranks :
    /\ r # 0
    /\ pc[r] = "done"
    /\ Count(r, "save") = 2
    /\ CompletedEvals(r) = 2

\* the collectives a rank issues: the start-up broadcast, then per
\* evaluation 'avg_loss' followed by 'avg_accuracy'
CollectivePattern(c) ==
  \A i \in DOMAIN c :
    c[i] = IF i = 1 THEN "broadcast"
           ELSE IF i % 2 = 0 THEN "avg_loss" ELSE "avg_accuracy"

\* C5: all ranks issue the same sequence of named collectives (one rank's
\* sequence is always a prefix of the other's), 'avg_loss' then
\* 'avg_accuracy' once each per evaluation whatever the rank and the local
\* data; and unless a rank fails, every rank gets past every barrier and
\* finishes the run.
C5_MatchingCollectives ==
  /\ [](\A r \in Ranks :
          /\ CollectivePattern(collectives[r])
          /\ \A q \in Ranks :
               IsPrefix(collectives[r], collectives[q]) \/ IsPrefix(collectives[q], collectives[r])
          /\ (BetweenEpochs(r) \/ pc[r] = "save") =>
               Len(collectives[r]) = 1 + 2 * Count(r, "test")
          /\ pc[r] = "avg_loss" => Len(collectives[r]) = 2 * Count(r, "test")
          /\ pc[r] = "avg_accuracy" => Len(collectives[r]) = 1 + 2 * Count(r, "test"))
  /\ (<>(\E r \in Ranks : pc[r] = "crashed") \/ <>(\A r \in Ranks : pc[r] = "done"))

C5_Witness ==
  /\ env.size = 2
  /\ \A r \in Ranks : pc[r] = "done" /\ Len(collectives[r]) = 5
  /\ locals[0].test_accuracy.num > 0

\* C6: every rank logs one 'val_loss' and one 'val_acc' record per
\* completed evaluation, the records of the same evaluation are identical
\* on all ranks, and only rank 0 prints the summary, once per evaluation.
C6_SameMetricsEveryRank ==
  \A r \in Ranks :
    /\ \A i \in DOMAIN runlog[r] :
         runlog[r][i].key = IF i % 2 = 1 THEN "val_loss" ELSE "val_acc"
    /\ Len(runlog[r]) =
         2 * (Count(r, "test") - (IF TestUnfinished(r) THEN 1 ELSE 0))
    /\ \A i \in DOMAIN runlog[r] :
         runlog[r][i].epoch = Events(r, "test")[(i + 1) \div 2].epoch
    /\ \A q \in Ranks : IsPrefix(runlog[r], runlog[q]) \/ IsPrefix(runlog[q], runlog[r])
    /\ printed[r] = IF r = 0 THEN CompletedEvals(r) ELSE 0

\* two ranks whose local accuracies differ have logged the same records
C6_Witness ==
  /\ env.size = 2
  /\ \A r \in Ranks : pc[r] = "save" /\ Len(runlog[r]) = 4
  /\ runlog[0][4].val.num * 2 = runlog[0][4].val.den
  /\ printed = (0 :> 2) @@ (1 :> 0)

\* C7: no step of test() changes the state mapping of the model, the
\* optimizer state or the trainability flag of the rank that runs it.
C7_TestLeavesModelAlone ==
  [][\A r \in Ranks :
       InTest(r) =>
         /\ StateDict(model'[r]) = StateDict(model[r])
         /\ model'[r].features_grad = model[r].features_grad
         /\ optimizer'[r] = optimizer[r]]_vars

C7_Witness ==
  \E r \in Ranks :
    /\ pc[r] = "save"
    /\ model[r].buffers > 0
    /\ model[r].features > 0
    /\ ~model[r].training

InUnit(f) == f.den > 0 /\ 0 <= f.num /\ f.num <= f.den

\* C8: every accuracy test() reports lies in [0, 1] and every loss it
\* reports is non-negative; so do the per-rank means handed to the
\* all-reduce (the correct count never exceeds the shard size).
C8_MetricRanges ==
  \A r \in Ranks :
    /\ \A i \in DOMAIN runlog[r] :
         /\ runlog[r][i].val.den > 0
         /\ runlog[r][i].val.num >= 0
         /\ runlog[r][i].key = "val_acc" => InUnit(runlog[r][i].val)
    /\ pending[r].name = "avg_accuracy" => InUnit(pending[r].val)
    /\ pending[r].name = "avg_loss" => pending[r].val.den > 0 /\ pending[r].val.num >= 0

C8_Witness ==
  /\ env.size = 2
  /\ \E r \in Ranks :
       /\ Len(runlog[r]) = 2
       /\ runlog[r][2].val.num = runlog[r][2].val.den
       /\ runlog[r][1].val.num = 0

\* C9 as stated: for every --epochs value E a finished run has trained
\* exactly the epochs 1, ..., E in this order and written E checkpoints.
C9_Original ==
  \A r \in Ranks :
    pc[r] = "done" =>
      /\ TrainedEpochs(r) = [i \in 1 .. args.epochs |-> i]
      /\ Count(r, "save") = args.epochs

\* C10 as stated: with args.cuda false nothing is placed on a CUDA device.
C10_Original ==
  \A r \in Ranks : (pc[r] # "setup" /\ ~cuda[r]) => on_cuda[r] = {}

====
